---- MODULE Spec2Model ----
(***************************************************************************)
(* Model of src/app.py: the Streamlit audio-notes application.             *)
(*                                                                         *)
(* Every user interaction re-executes the whole script against the         *)
(* session's st.session_state.  One script run is one action, except that  *)
(* add_note_to_db is split at its three remote calls (count, embedding,    *)
(* upsert) because the Qdrant collection is shared by all browser sessions *)
(* and other sessions may act between those calls.                         *)
(***************************************************************************)
EXTENDS Integers, Sequences, FiniteSets, TLC

\* ---------------------------------------------------------------- domains

\* Browser sessions; each has its own st.session_state and script thread.
Sessions == {"s1", "s2"}

\* Python's None, for the slots that hold a string or None.
None == "None"

\* mp3 buffers the recorder widget can deliver.
AudioBufs == {"a1", "a2", "a3"}

\* Texts the transcription service can return ("" when it hears no speech).
Texts == {"", "buy milk", "call mom"}

\* Values list_notes_from_db can be called with.
Queries == {None, "", "milk", "mom"}

\* Exceptions that reach the top of the script.
StoreError == "StoreError"
EmbeddingError == "EmbeddingError"
TranscriptionError == "TranscriptionError"

\* limit=10 of scroll and search.
LIMIT == 10

\* Successful upserts explored in one behaviour.
MaxCommits == 2

\* Number of notes already in the collection when the behaviour starts.
SeedSizes == {0, LIMIT - 1, LIMIT}

\* ------------------------------------------------------- external services

\* hashlib.md5(...).hexdigest(): a many-to-one digest ("a1" and "a3" collide).
md5(bytes) ==
    CASE bytes = "a1" -> "0cc1"
      [] bytes = "a2" -> "92eb"
      [] bytes = "a3" -> "0cc1"

\* The embedding model as a table: text -> vector (all of the same norm).
EmbeddingOf(text) ==
    CASE text = "buy milk" -> <<3, 1>>
      [] text = "call mom" -> <<1, 3>>
      [] text = "milk"     -> <<3, 1>>
      [] text = "mom"      -> <<1, 3>>
      [] OTHER             -> <<2, 2>>

\* get_embedding(text): the vector of result.data[0].embedding.
get_embedding(text) == EmbeddingOf(text)

\* Distance.COSINE on vectors of equal norm orders like the dot product.
Similarity(u, v) == u[1] * v[1] + u[2] * v[2]

\* PointStruct(id, vector, payload).
PointStruct(id, vector, payload) ==
    [id |-> id, vector |-> vector, payload |-> payload]

\* Variant: the id is the count itself.
NextPointIdIsCount(count) == count

\* The id add_note_to_db gives the new point: points_count.count + 1.
NextPointId(count) == count + 1

\* qdrant_client.count(exact=True).count
Count(st) == Cardinality(DOMAIN st)

\* qdrant_client.upsert(points=[p]): insert, or replace the point at p.id.
UpsertPoint(st, p) ==
    [i \in DOMAIN st \cup {p.id} |->
        IF i = p.id THEN [vector |-> p.vector, payload |-> p.payload] ELSE st[i]]

Min(a, b) == IF a < b THEN a ELSE b

Take(seq, n) == SubSeq(seq, 1, Min(n, Len(seq)))

RECURSIVE AscendingIds(_)
AscendingIds(S) ==
    IF S = {} THEN << >>
    ELSE LET m == CHOOSE x \in S : \A y \in S : x <= y
         IN  <<m>> \o AscendingIds(S \ {m})

\* qdrant_client.scroll(limit)[0]: the first `limit` points in id order.
Scroll(st, limit) ==
    LET ids == Take(AscendingIds(DOMAIN st), limit)
    IN  [k \in 1..Len(ids) |-> [id |-> ids[k], payload |-> st[ids[k]].payload]]

RECURSIVE RankedIds(_, _, _)
RankedIds(st, qv, S) ==
    IF S = {} THEN << >>
    ELSE LET best == CHOOSE x \in S : \A y \in S :
                        \/ Similarity(qv, st[x].vector) > Similarity(qv, st[y].vector)
                        \/ /\ Similarity(qv, st[x].vector) = Similarity(qv, st[y].vector)
                           /\ x <= y
         IN  <<best>> \o RankedIds(st, qv, S \ {best})

\* qdrant_client.search(query_vector, limit): the `limit` most similar points,
\* most similar first, each with its score.
Search(st, qv, limit) ==
    LET ids == Take(RankedIds(st, qv, DOMAIN st), limit)
    IN  [k \in 1..Len(ids) |->
            [id |-> ids[k], payload |-> st[ids[k]].payload,
             score |-> Similarity(qv, st[ids[k]].vector)]]

\* A collection as earlier runs of the application left it: ids 1..n.
SeedText(i) == IF i % 2 = 1 THEN "buy milk" ELSE "call mom"

SeedStore(n) ==
    [i \in 1..n |-> [vector |-> get_embedding(SeedText(i)),
                     payload |-> [text |-> SeedText(i)]]]

\* ------------------------------------------------------------------ state

VARIABLES
    store,          \* the "notes" collection: id -> [vector, payload]
    session_state,  \* st.session_state of each session
    pc,             \* where each session's script is: "idle" between runs,
                    \* "count", "embedding", "upsert" inside add_note_to_db
    points_count,   \* add_note_to_db's local points_count.count
    vector,         \* the evaluated vector= argument of PointStruct
    run,            \* per session, the script run in progress or just ended
    view,           \* per session, what the last search run listed
    id_log          \* the upserts that succeeded, in order

vars == <<store, session_state, pc, points_count, vector, run, view, id_log>>

\* Lines 140-150: the four keys are created on the first run.
InitialSessionState ==
    [current_md5_file |-> None, note_audio_bytes |-> None,
     note_text |-> "", note_audio_text |-> ""]

\* ev: what triggered the run; audio: the recorder's value; text: the
\* transcription received; pre, store0: session state and collection when the
\* run began; embedded: the input of the run's get_embedding call, if any;
\* err: the exception that ended the run, if any.
NoRun == [ev |-> "init", audio |-> None, text |-> "", pre |-> InitialSessionState,
          store0 |-> << >>, embedded |-> None, err |-> ""]

NoView == [query |-> None, reply |-> << >>, result |-> << >>]

InitWith(sizes) ==
    /\ store \in {SeedStore(n) : n \in sizes}
    /\ session_state = [s \in Sessions |-> InitialSessionState]
    /\ pc = [s \in Sessions |-> "idle"]
    /\ points_count = [s \in Sessions |-> 0]
    /\ vector = [s \in Sessions |-> << >>]
    /\ run = [s \in Sessions |-> NoRun]
    /\ view = [s \in Sessions |-> NoView]
    /\ id_log = << >>

Init == InitWith(SeedSizes)

\* ------------------------------------------------------- the add_tab block

\* Variant: a new digest clears the transcription but not note_text.
new_audio_keeps_note_text(ss, bytes) ==
    LET current_md5 == md5(bytes)
    IN  IF ss.current_md5_file # current_md5
        THEN [ss EXCEPT !.note_audio_bytes = bytes,
                        !.note_audio_text = "",
                        !.current_md5_file = current_md5]
        ELSE [ss EXCEPT !.note_audio_bytes = bytes]

\* Variant: the digests are not compared; every delivery clears the texts.
new_audio_always_resets(ss, bytes) ==
    [note_audio_bytes |-> bytes,
     note_audio_text  |-> "",
     note_text        |-> "",
     current_md5_file |-> md5(bytes)]

\* Lines 166-172: keep the bytes; on a new digest clear both texts.
new_audio(ss, bytes) ==
    LET current_md5 == md5(bytes)
    IN  IF ss.current_md5_file # current_md5
        THEN [note_audio_bytes |-> bytes,
              note_audio_text  |-> "",
              note_text        |-> "",
              current_md5_file |-> current_md5]
        ELSE [ss EXCEPT !.note_audio_bytes = bytes]

\* st.text_area(value=v, disabled=True): a read-only widget returns its value.
text_area(value) == value

\* Lines 179-184: the text area is only drawn for a non-empty transcription.
show_transcription(ss) ==
    IF ss.note_audio_text # ""
    THEN [ss EXCEPT !.note_text = text_area(ss.note_audio_text)]
    ELSE ss

\* Line 177: the transcribe button stores the service's text.
store_transcription(ss, text) == [ss EXCEPT !.note_audio_text = text]

\* Variant: the button acts whatever note_text holds.
may_commit_always(ss) == TRUE

\* Line 187: the commit button only acts on a non-empty note_text.
may_commit(ss) == ss.note_text # ""

\* Variant: `query is None` instead of `not query`.
is_listing_none_only(query) == query = None

\* Line 97: `not query`.
is_listing(query) == query = None \/ query = ""

\* Lines 99-106 and 114-121: the points mapped to {text, score}; a score of
\* None is << >>, a score x is <<x>>.
listing_result(notes) ==
    [k \in 1..Len(notes) |-> [text |-> notes[k].payload.text, score |-> << >>]]

\* Variant: the search branch copies the listing branch's score.
search_result_unscored(notes) ==
    [k \in 1..Len(notes) |-> [text |-> notes[k].payload.text, score |-> << >>]]

search_result(notes) ==
    [k \in 1..Len(notes) |-> [text |-> notes[k].payload.text,
                              score |-> <<notes[k].score>>]]

\* ---------------------------------------------------------------- actions

Idle(s) == pc[s] = "idle"

InFlight == Cardinality({t \in Sessions : pc[t] # "idle"})

Started(s, ev, audio) ==
    [ev |-> ev, audio |-> audio, text |-> "", pre |-> session_state[s],
     store0 |-> store, embedded |-> None, err |-> ""]

\* Line 153 raises: the store is unreachable, nothing below it runs.
AssureFails(s) ==
    /\ Idle(s)
    /\ run' = [run EXCEPT ![s] =
                 [Started(s, "assure", session_state[s].note_audio_bytes)
                    EXCEPT !.err = StoreError]]
    /\ view' = [view EXCEPT ![s] = NoView]
    /\ UNCHANGED <<store, session_state, pc, points_count, vector, id_log>>

\* A run with no button pressed: the recorder delivers `audio` (a new
\* recording, or again the one it holds).
NewAudio(s, audio) ==
    /\ Idle(s)
    /\ audio \in AudioBufs
    /\ session_state' = [session_state EXCEPT ![s] =
                            show_transcription(new_audio(@, audio))]
    /\ run' = [run EXCEPT ![s] = Started(s, "audio", audio)]
    /\ view' = [view EXCEPT ![s] = NoView]
    /\ UNCHANGED <<store, pc, points_count, vector, id_log>>

\* A run with "Transkrybuj audio" pressed and the service answering `text`.
Transcribe(s, text) ==
    /\ Idle(s)
    /\ session_state[s].note_audio_bytes # None
    /\ text \in Texts
    /\ session_state' = [session_state EXCEPT ![s] =
            show_transcription(
                store_transcription(new_audio(@, @.note_audio_bytes), text))]
    /\ run' = [run EXCEPT ![s] =
                 [Started(s, "transcribe", session_state[s].note_audio_bytes)
                    EXCEPT !.text = text]]
    /\ view' = [view EXCEPT ![s] = NoView]
    /\ UNCHANGED <<store, pc, points_count, vector, id_log>>

\* The same run with transcribe_audio raising: line 177 assigns nothing and
\* the rest of the script is skipped.
TranscribeFails(s) ==
    /\ Idle(s)
    /\ session_state[s].note_audio_bytes # None
    /\ session_state' = [session_state EXCEPT ![s] =
                            new_audio(@, @.note_audio_bytes)]
    /\ run' = [run EXCEPT ![s] =
                 [Started(s, "transcribe", session_state[s].note_audio_bytes)
                    EXCEPT !.err = TranscriptionError]]
    /\ view' = [view EXCEPT ![s] = NoView]
    /\ UNCHANGED <<store, pc, points_count, vector, id_log>>

\* The add_tab block of a run in which no transcription is requested: lines
\* 163-172 and 179-184, skipped altogether while nothing is recorded.
add_tab(ss) ==
    IF ss.note_audio_bytes # None
    THEN show_transcription(new_audio(ss, ss.note_audio_bytes))
    ELSE ss

\* A run with "Zapisz notatke" pressed: add_note_to_db is entered only when
\* note_text is non-empty (line 187).
Commit(s) ==
    /\ Idle(s)
    /\ Len(id_log) + InFlight < MaxCommits
    /\ LET ss == add_tab(session_state[s])
       IN  /\ session_state' = [session_state EXCEPT ![s] = ss]
           /\ pc' = [pc EXCEPT ![s] =
                       IF ss.note_audio_bytes # None /\ may_commit(ss)
                       THEN "count" ELSE "idle"]
    /\ run' = [run EXCEPT ![s] =
                 Started(s, "commit", session_state[s].note_audio_bytes)]
    /\ view' = [view EXCEPT ![s] = NoView]
    /\ UNCHANGED <<store, points_count, vector, id_log>>

\* Lines 77-80.
CountPoints(s) ==
    /\ pc[s] = "count"
    /\ points_count' = [points_count EXCEPT ![s] = Count(store)]
    /\ pc' = [pc EXCEPT ![s] = "embedding"]
    /\ UNCHANGED <<store, session_state, vector, run, view, id_log>>

CountFails(s) ==
    /\ pc[s] = "count"
    /\ pc' = [pc EXCEPT ![s] = "idle"]
    /\ run' = [run EXCEPT ![s].err = StoreError]
    /\ UNCHANGED <<store, session_state, points_count, vector, view, id_log>>

\* Variant: the payload takes the raw transcription instead of note_text.
payload_text_raw(ss) == ss.note_audio_text

\* Line 188 passes note_text; line 86 embeds it and line 88 stores it.
embedded_text(ss) == ss.note_text

payload_text(ss) == ss.note_text

\* Line 86: the vector= argument is evaluated before upsert is called.
Embed(s) ==
    /\ pc[s] = "embedding"
    /\ embedded_text(session_state[s]) # ""
    /\ vector' = [vector EXCEPT ![s] =
                    get_embedding(embedded_text(session_state[s]))]
    /\ run' = [run EXCEPT ![s].embedded = embedded_text(session_state[s])]
    /\ pc' = [pc EXCEPT ![s] = "upsert"]
    /\ UNCHANGED <<store, session_state, points_count, view, id_log>>

\* Variant: the provider's error is caught and the upsert goes on with an
\* empty vector.
EmbedFailsSwallowed(s) ==
    /\ pc[s] = "embedding"
    /\ pc' = [pc EXCEPT ![s] = "upsert"]
    /\ vector' = [vector EXCEPT ![s] = << >>]
    /\ run' = [run EXCEPT ![s].embedded = session_state[s].note_text,
                          ![s].err = EmbeddingError]
    /\ UNCHANGED <<store, session_state, points_count, view, id_log>>

\* The provider rejects the call (always so for an empty input).
EmbedFails(s) ==
    /\ pc[s] = "embedding"
    /\ pc' = [pc EXCEPT ![s] = "idle"]
    /\ points_count' = [points_count EXCEPT ![s] = 0]
    /\ run' = [run EXCEPT ![s].embedded = embedded_text(session_state[s]),
                          ![s].err = EmbeddingError]
    /\ UNCHANGED <<store, session_state, vector, view, id_log>>

\* Variant: the id is taken from a count read at the time of the write.
UpsertAtFreshCount(s) ==
    /\ pc[s] = "upsert"
    /\ LET p == PointStruct(NextPointId(Count(store)), vector[s],
                            [text |-> session_state[s].note_text])
       IN  /\ store' = UpsertPoint(store, p)
           /\ id_log' = Append(id_log,
                  [s |-> s, id |-> p.id, count |-> points_count[s],
                   text |-> p.payload.text, replaced |-> p.id \in DOMAIN store])
    /\ pc' = [pc EXCEPT ![s] = "idle"]
    /\ points_count' = [points_count EXCEPT ![s] = 0]
    /\ vector' = [vector EXCEPT ![s] = << >>]
    /\ UNCHANGED <<session_state, run, view>>

\* Lines 81-92, then the toast of line 189.
Upsert(s) ==
    /\ pc[s] = "upsert"
    /\ LET p == PointStruct(NextPointId(points_count[s]), vector[s],
                            [text |-> payload_text(session_state[s])])
       IN  /\ store' = UpsertPoint(store, p)
           /\ id_log' = Append(id_log,
                  [s |-> s, id |-> p.id, count |-> points_count[s],
                   text |-> p.payload.text, replaced |-> p.id \in DOMAIN store])
    /\ pc' = [pc EXCEPT ![s] = "idle"]
    /\ points_count' = [points_count EXCEPT ![s] = 0]
    /\ vector' = [vector EXCEPT ![s] = << >>]
    /\ UNCHANGED <<session_state, run, view>>

UpsertFails(s) ==
    /\ pc[s] = "upsert"
    /\ pc' = [pc EXCEPT ![s] = "idle"]
    /\ points_count' = [points_count EXCEPT ![s] = 0]
    /\ vector' = [vector EXCEPT ![s] = << >>]
    /\ run' = [run EXCEPT ![s].err = StoreError]
    /\ UNCHANGED <<store, session_state, view, id_log>>

\* Lines 95-121 with the store answering.
list_notes_from_db(st, query) ==
    IF is_listing(query)
    THEN LET notes == Scroll(st, LIMIT)
         IN  [query |-> query, reply |-> notes, result |-> listing_result(notes)]
    ELSE LET notes == Search(st, get_embedding(query), LIMIT)
         IN  [query |-> query, reply |-> notes, result |-> search_result(notes)]

\* A run with "Szukaj" pressed and `query` in the text input.
SearchNotes(s, query) ==
    /\ Idle(s)
    /\ query \in Queries
    /\ ~is_listing(query) => query # ""
    /\ session_state' = [session_state EXCEPT ![s] = add_tab(@)]
    /\ view' = [view EXCEPT ![s] = list_notes_from_db(store, query)]
    /\ run' = [run EXCEPT ![s] =
                 [Started(s, "search", session_state[s].note_audio_bytes)
                    EXCEPT !.embedded = IF is_listing(query) THEN None ELSE query]]
    /\ UNCHANGED <<store, pc, points_count, vector, id_log>>

\* The same run with the embedding call or the store call raising.
SearchFails(s, query, err) ==
    /\ Idle(s)
    /\ query \in Queries
    /\ err \in {EmbeddingError, StoreError}
    /\ err = EmbeddingError => ~is_listing(query)
    /\ session_state' = [session_state EXCEPT ![s] = add_tab(@)]
    /\ view' = [view EXCEPT ![s] = NoView]
    /\ run' = [run EXCEPT ![s] =
                 [Started(s, "search", session_state[s].note_audio_bytes)
                    EXCEPT !.embedded = IF is_listing(query) THEN None ELSE query,
                           !.err = err]]
    /\ UNCHANGED <<store, pc, points_count, vector, id_log>>

\* ---------------------------------------------------------- specifications

AddNote(s) ==
    \/ CountPoints(s) \/ CountFails(s)
    \/ Embed(s) \/ EmbedFails(s)
    \/ Upsert(s) \/ UpsertFails(s)

\* One browser session using every part of the application.
Next ==
    \E s \in {"s1"} :
        \/ AssureFails(s)
        \/ \E audio \in AudioBufs : NewAudio(s, audio)
        \/ \E text \in Texts : Transcribe(s, text)
        \/ TranscribeFails(s)
        \/ Commit(s)
        \/ AddNote(s)
        \/ \E query \in Queries : SearchNotes(s, query)
        \/ \E query \in Queries, err \in {EmbeddingError, StoreError} :
              SearchFails(s, query, err)

Spec == Init /\ [][Next]_vars

\* Two sessions on the same collection.  The search tab only reads, so these
\* specifications leave it out; they use one recording, spoken transcriptions
\* and a collection that starts empty or with one note.
InitCapture == InitWith({0, 1})

CaptureStep(s) ==
    \/ NewAudio(s, "a1")
    \/ \E text \in Texts \ {""} : Transcribe(s, text)
    \/ TranscribeFails(s)
    \/ AddNote(s)

NextConcurrent ==
    \E s \in Sessions : CaptureStep(s) \/ Commit(s)

SpecConcurrent == InitCapture /\ [][NextConcurrent]_vars

\* The single-writer discipline: a commit starts only when no other session
\* is inside add_note_to_db.
CommitSerialized(s) ==
    /\ \A t \in Sessions \ {s} : Idle(t)
    /\ Commit(s)

NextSerial ==
    \E s \in Sessions : CaptureStep(s) \/ CommitSerialized(s)

SpecSerial == InitCapture /\ [][NextSerial]_vars

\* ------------------------------------------------------------- properties

\* C1: a run that delivers a recording whose digest differs from the held
\* one ends with both texts empty and the digest of the new recording held.
NewDigestResetsTexts ==
    \A s \in Sessions :
        (run[s].ev = "audio" /\ md5(run[s].audio) # run[s].pre.current_md5_file)
        => /\ session_state[s].note_audio_text = ""
           /\ session_state[s].note_text = ""
           /\ session_state[s].current_md5_file = md5(run[s].audio)

\* A transcribed recording was replaced by one with another digest.
TranscriptWasReset ==
    \E s \in Sessions :
        /\ run[s].ev = "audio"
        /\ run[s].pre.current_md5_file # None
        /\ md5(run[s].audio) # run[s].pre.current_md5_file
        /\ run[s].pre.note_audio_text # ""
        /\ run[s].pre.note_text # ""

\* C2: a commit run that starts with an empty note_text never enters
\* add_note_to_db: no count, no embedding, no upsert, the collection as before.
EmptyCommitWritesNothing ==
    \A s \in Sessions :
        (run[s].ev = "commit" /\ run[s].pre.note_text = "")
        => /\ pc[s] = "idle"
           /\ run[s].embedded = None
           /\ run[s].err = ""
           /\ store = run[s].store0
           /\ Count(store) = Count(run[s].store0)

EmptyCommitHappened ==
    \E s \in Sessions :
        /\ run[s].ev = "commit"
        /\ run[s].pre.note_text = ""
        /\ run[s].pre.note_audio_bytes # None

\* C3: every stored point's vector is the embedding of its own payload text,
\* and the point a finished commit wrote carries the note_text committed.
VectorMatchesText ==
    /\ \A i \in DOMAIN store :
          store[i].vector = get_embedding(store[i].payload.text)
    /\ \A s \in Sessions :
          (run[s].ev = "commit" /\ pc[s] = "idle" /\ run[s].err = ""
             /\ run[s].embedded # None)
          => /\ id_log # << >>
             /\ store[id_log[Len(id_log)].id].payload.text = run[s].pre.note_text
             /\ store[id_log[Len(id_log)].id].vector =
                    get_embedding(run[s].pre.note_text)

CommitStoredNote ==
    \E s \in Sessions :
        /\ run[s].ev = "commit" /\ pc[s] = "idle" /\ run[s].err = ""
        /\ run[s].embedded # None
        /\ run[s].pre.note_audio_text = ""
        /\ store # run[s].store0

\* C4: with commits serialized, the k-th successful commit reads the count
\* n + k - 1 and writes id n + k, never on an existing point.
SerialIdsAreFresh ==
    \A k \in 1..Len(id_log) :
        /\ id_log[k].id = id_log[k].count + 1
        /\ ~id_log[k].replaced
        /\ k > 1 => id_log[k].id = id_log[k - 1].id + 1
        /\ Count(store) = id_log[1].count + Len(id_log)
        /\ id_log[k].id \in DOMAIN store
        /\ store[id_log[k].id].payload.text = id_log[k].text

TwoSerialCommits ==
    /\ Len(id_log) = 2
    /\ id_log[1].s # id_log[2].s
    /\ id_log[1].count > 0
    /\ id_log[2].id = id_log[1].id + 1

\* C5: every upsert goes to the count read earlier plus one; two commits that
\* read the same count write the same id, the later one replaces the earlier
\* note, and the collection grows by the number of distinct ids only.
SameCountSameId ==
    /\ \A k \in 1..Len(id_log) :
          /\ id_log[k].id = id_log[k].count + 1
          /\ Count(store) =
                id_log[1].count + Cardinality({id_log[j].id : j \in 1..Len(id_log)})
    /\ \A j, k \in 1..Len(id_log) :
          (j < k /\ id_log[j].count = id_log[k].count)
          => /\ id_log[j].id = id_log[k].id
             /\ id_log[k].replaced
             /\ (\A m \in (k + 1)..Len(id_log) : id_log[m].id # id_log[k].id)
                   => store[id_log[k].id].payload.text = id_log[k].text

LostUpdate ==
    /\ Len(id_log) = 2
    /\ id_log[1].s # id_log[2].s
    /\ id_log[1].count = id_log[2].count
    /\ id_log[1].id = id_log[2].id
    /\ id_log[1].text # id_log[2].text
    /\ Count(store) = id_log[1].count + 1
    /\ store[id_log[2].id].payload.text = id_log[2].text

\* C6: after a transcribe run both texts equal the text the service returned.
TranscribeSetsBothTexts ==
    \A s \in Sessions :
        (run[s].ev = "transcribe" /\ run[s].err = "")
        => /\ session_state[s].note_audio_text = run[s].text
           /\ session_state[s].note_text = run[s].text

\* C7: a run that delivers again the recording already held changes nothing
\* in the session state.
SameAudioChangesNothing ==
    \A s \in Sessions :
        (run[s].ev = "audio" /\ run[s].audio = run[s].pre.note_audio_bytes)
        => session_state[s] = run[s].pre

SameAudioRedelivered ==
    \E s \in Sessions :
        /\ run[s].ev = "audio"
        /\ run[s].audio = run[s].pre.note_audio_bytes
        /\ run[s].pre.note_text # ""

\* C8: get_embedding is never called with the empty string, and a listing
\* run calls no embedding at all.
NeverEmbedsEmpty ==
    \A s \in Sessions :
        /\ run[s].embedded # ""
        /\ (run[s].ev = "search" /\ view[s].query \in {None, ""} /\ run[s].err = "")
              => run[s].embedded = None

SearchEmbeddedQuery ==
    \E s \in Sessions :
        /\ run[s].ev = "search"
        /\ run[s].embedded = "milk"
        /\ run[s].err = ""

\* C9: the list shown maps the store's reply entry by entry, at most LIMIT
\* long; a listing has score None throughout, a search has each point's
\* similarity, most similar first; the reply is what the collection holds.
ResultMirrorsStore ==
    \A s \in Sessions :
        (run[s].ev = "search" /\ run[s].err = "")
        => LET v == view[s]
           IN  /\ Len(v.result) = Len(v.reply)
               /\ Len(v.result) = Min(Count(store), LIMIT)
               /\ Len(v.result) <= LIMIT
               /\ \A j, k \in 1..Len(v.reply) : j # k => v.reply[j].id # v.reply[k].id
               /\ \A k \in 1..Len(v.reply) :
                     /\ v.reply[k].id \in DOMAIN store
                     /\ v.result[k].text = store[v.reply[k].id].payload.text
               /\ (v.query \in {None, ""})
                     => /\ \A k \in 1..Len(v.result) : v.result[k].score = << >>
                        /\ \A k \in 1..(Len(v.reply) - 1) :
                              v.reply[k].id < v.reply[k + 1].id
               /\ (v.query \notin {None, ""})
                     => /\ \A k \in 1..Len(v.result) :
                              v.result[k].score =
                                 <<Similarity(get_embedding(v.query),
                                              store[v.reply[k].id].vector)>>
                        /\ \A k \in 1..(Len(v.result) - 1) :
                              v.result[k].score[1] >= v.result[k + 1].score[1]
                        /\ \A i \in DOMAIN store :
                              (\A k \in 1..Len(v.reply) : v.reply[k].id # i)
                              => \A k \in 1..Len(v.result) :
                                    v.result[k].score[1] >=
                                       Similarity(get_embedding(v.query), store[i].vector)

SearchCappedAtLimit ==
    \E s \in Sessions :
        /\ run[s].ev = "search" /\ run[s].err = ""
        /\ view[s].query = "mom"
        /\ Count(store) > LIMIT
        /\ Len(view[s].result) = LIMIT
        /\ view[s].result[1].score # view[s].result[LIMIT].score

\* C10: a commit run ended by a gateway error leaves the collection and the
\* session state as they were when the run began, and the script is over.
FailedCommitChangesNothing ==
    \A s \in Sessions :
        (run[s].ev = "commit" /\ run[s].err # "")
        => /\ pc[s] = "idle"
           /\ run[s].err \in {StoreError, EmbeddingError}
           /\ store = run[s].store0
           /\ session_state[s] = run[s].pre

CommitFailedAtUpsert ==
    \E s \in Sessions :
        /\ run[s].ev = "commit"
        /\ run[s].err = StoreError
        /\ run[s].embedded # None
        /\ pc[s] = "idle"

====
